---- MODULE Spec2Model ----
(***************************************************************************)
(* cert-exporter: the periodic Secret and ConfigMap checkers               *)
(* (src/src/checkers) driving the exporters (src/src/exporters).           *)
(*                                                                         *)
(* Names of data entries and glob patterns are sequences of one-character  *)
(* strings, so that path.Ext, strings.TrimSuffix and filepath.Match are    *)
(* computed on the characters as the Go code computes them.                *)
(***************************************************************************)
EXTENDS Integers, Sequences, FiniteSets, TLC

VARIABLES
    world,        \* the resources the cluster may come to hold during the run
    cluster,      \* the resources the cluster holds now
    running,      \* the kinds whose StartChecking has been started
    sink,         \* sink[k]: the gauge series of kind k's metric families
    ErrorTotal,   \* metrics.ErrorTotal
    pc,           \* pc[k]: where kind k's StartChecking loop stands
    nsIdx,        \* position of "for _, ns := range p.namespaces"
    selIdx,       \* position of "for _, labelSelector := range p.labelSelectors"
    items,        \* the slice "secrets" / "configMaps" of the tick
    itemIdx,      \* position of "for _, secret := range secrets"
    pending,      \* keys of the map being ranged over that are still to come
    cur,          \* the entry of the current iteration ("name")
    password,     \* the local variable "password"
    cfg,          \* cfg[k]: the fields of the checker struct
    listLog,      \* history of the tick: the List calls made so far
    exportLog,    \* history of the tick: entries decided so far
    lookups,      \* history of the entry: getPasswordFromSecret calls so far
    resets,       \* history of the tick: number of ResetMetrics calls
    prev          \* history: the objects that had series when the last tick ended

vars == <<world, cluster, running, sink, ErrorTotal, pc, nsIdx, selIdx, items, itemIdx,
          pending, cur, password, cfg, listLog, exportLog, lookups, resets, prev>>

Kinds == {"secret", "configMap"}

\* New ticks are started only while the error counter is below this value.
MaxErrorTotal == 2

-----------------------------------------------------------------------------
(* Strings as character sequences *)

PASSWORD == <<"p", "a", "s", "s", "w", "o", "r", "d">>
DOTPASSWORD == <<".">> \o PASSWORD

\* path.Ext: the suffix beginning at the final dot, "" when there is no dot.
Ext(name) ==
    LET dots == {i \in 1..Len(name) : name[i] = "."}
    IN  IF dots = {} THEN <<>>
        ELSE LET last == CHOOSE i \in dots : \A j \in dots : j <= i
             IN  SubSeq(name, last, Len(name))

\* strings.TrimSuffix
TrimSuffix(s, suffix) ==
    IF Len(suffix) <= Len(s)
       /\ SubSeq(s, Len(s) - Len(suffix) + 1, Len(s)) = suffix
    THEN SubSeq(s, 1, Len(s) - Len(suffix))
    ELSE s

\* Mutant of PasswordKey: the extension is not trimmed.
PasswordKeyUntrimmed(name) == name \o DOTPASSWORD

\* passwordKey := strings.TrimSuffix(name, path.Ext(name)) + ".password"
PasswordKey(name) == TrimSuffix(name, Ext(name)) \o DOTPASSWORD

\* name + ".password"
FullPasswordKey(name) == name \o DOTPASSWORD

\* filepath.Match on a well-formed pattern of literals, '*' and '?'.
RECURSIVE GlobMatch(_, _)
GlobMatch(pattern, name) ==
    IF pattern = <<>> THEN name = <<>>
    ELSE IF Head(pattern) = "*"
         THEN GlobMatch(Tail(pattern), name)
              \/ (name # <<>> /\ Head(name) # "/" /\ GlobMatch(pattern, Tail(name)))
    ELSE IF Head(pattern) = "?"
         THEN name # <<>> /\ Head(name) # "/" /\ GlobMatch(Tail(pattern), Tail(name))
    ELSE name # <<>> /\ Head(name) = Head(pattern)
         /\ GlobMatch(Tail(pattern), Tail(name))

\* filepath.ErrBadPattern: a '[' that no ']' closes (the patterns used here
\* hold no ']' and no '\').
BadPattern(pattern) == \E i \in 1..Len(pattern) : pattern[i] = "["

\* filepath.Match(glob, name): (matched, err); matched is false with an error.
Match(glob, name) ==
    IF BadPattern(glob) THEN [matched |-> FALSE, err |-> TRUE]
    ELSE [matched |-> GlobMatch(glob, name), err |-> FALSE]

-----------------------------------------------------------------------------
(* Certificates, decoding and the metrics sink *)

\* A map with no key (a nil Go map reads the same way).
EmptyMap == [x \in {} |-> ""]

\* m[key] of a Go map of strings: the zero value "" when the key is absent.
MapGet(m, key) == IF key \in DOMAIN m THEN m[key] ELSE ""

Cert(issuer, cn, notAfter) == [issuer |-> issuer, cn |-> cn, notAfter |-> notAfter]

\* secondsToExpiryFromCertAsBytes(bytes, password): the certificates of a blob
\* (one per PEM block), or an error when none can be decoded. "p12" is a
\* keystore encrypted with the passphrase "s3".
Decode(bytes, pw) ==
    CASE bytes = "pemA"  -> [err |-> FALSE, certs |-> <<Cert("ca", "a", 10)>>]
      [] bytes = "pemA2" -> [err |-> FALSE, certs |-> <<Cert("ca", "a", 20)>>]
      [] bytes = "pemAB" -> [err |-> FALSE,
                             certs |-> <<Cert("ca", "a", 10), Cert("ca", "b", 30)>>]
      [] bytes = "p12" /\ pw = "s3"
                         -> [err |-> FALSE, certs |-> <<Cert("ca", "c", 40)>>]
      [] OTHER           -> [err |-> TRUE, certs |-> <<>>]

\* Mutant of GaugeSet: the series is found without its first label value, the
\* name of the data entry.
GaugeSetIgnoringKeyName(series, labels, value) ==
    {s \in series : Tail(s.labels) # Tail(labels)} \cup {[labels |-> labels, value |-> value]}

\* GaugeVec.WithLabelValues(labels...).Set(value): one series per label tuple.
GaugeSet(series, labels, value) ==
    {s \in series : s.labels # labels} \cup {[labels |-> labels, value |-> value]}

\* The series one ExportMetrics call sets, in the order of metricCollection.
RECURSIVE SetAll(_, _, _, _, _, _)
SetAll(series, certs, keyName, resName, resNamespace, serviceline) ==
    IF certs = <<>> THEN series
    ELSE SetAll(GaugeSet(series,
                         <<keyName, Head(certs).issuer, Head(certs).cn,
                           resName, resNamespace, serviceline>>,
                         Head(certs).notAfter),
                Tail(certs), keyName, resName, resNamespace, serviceline)

\* Mutant of ConfigMapExportMetrics: the decoding error is not returned.
ConfigMapExportMetricsSilent(series, bytes, keyName, configMapName, configMapNamespace, pw, labels) ==
    LET metricCollection == Decode(bytes, pw)
    IN  [err |-> FALSE,
         series |-> SetAll(series, metricCollection.certs, keyName,
                           configMapName, configMapNamespace,
                           MapGet(labels, "serviceline"))]

\* ConfigMapExporter.ExportMetrics
ConfigMapExportMetrics(series, bytes, keyName, configMapName, configMapNamespace, pw, labels) ==
    LET metricCollection == Decode(bytes, pw)
    IN  IF metricCollection.err THEN [err |-> TRUE, series |-> series]
        ELSE [err |-> FALSE,
              series |-> SetAll(series, metricCollection.certs, keyName,
                                configMapName, configMapNamespace,
                                MapGet(labels, "serviceline"))]

\* Mutant of ConfigMapResetMetrics: every gauge family is reset.
ConfigMapResetEverything(s) == [k \in DOMAIN s |-> {}]

\* Mutant of ConfigMapResetMetrics: nothing is reset.
ConfigMapResetNothing(s) == s

\* ConfigMapExporter.ResetMetrics: Reset() of the two ConfigMap gauge families.
ConfigMapResetMetrics(s) == [s EXCEPT !["configMap"] = {}]

\* SecretExporter.ExportMetrics
SecretExportMetrics(series, bytes, keyName, secretName, secretNamespace, pw, labels) ==
    LET metricCollection == Decode(bytes, pw)
    IN  IF metricCollection.err THEN [err |-> TRUE, series |-> series]
        ELSE [err |-> FALSE,
              series |-> SetAll(series, metricCollection.certs, keyName,
                                secretName, secretNamespace,
                                MapGet(labels, "serviceline"))]

\* SecretExporter.ResetMetrics: Reset() of the two Secret gauge families.
SecretResetMetrics(s) == [s EXCEPT !["secret"] = {}]

-----------------------------------------------------------------------------
(* The cluster and its API *)

Resource(kind, ns, name, labels, annotations, type, data, binaryData) ==
    [kind |-> kind, ns |-> ns, name |-> name, labels |-> labels,
     annotations |-> annotations, type |-> type, data |-> data,
     binaryData |-> binaryData]

SameObject(r1, r2) == r1.kind = r2.kind /\ r1.ns = r2.ns /\ r1.name = r2.name

\* Items of a list answer come in the API server's order (any fixed order).
RECURSIVE SetToSeq(_)
SetToSeq(S) ==
    IF S = {} THEN <<>>
    ELSE LET x == CHOOSE x \in S : TRUE IN <<x>> \o SetToSeq(S \ {x})

\* A label selector "key=value"; the empty ListOptions select everything.
NoSelector == <<>>
Selects(selector, r) ==
    selector = NoSelector
    \/ (selector[1] \in DOMAIN r.labels /\ r.labels[selector[1]] = selector[2])

\* client.CoreV1().Secrets(ns).List / ConfigMaps(ns).List: an error, or the
\* items of namespace ns (of every namespace when ns = "") the selector selects.
ListResponses(c, kind, ns, selector) ==
    {[err |-> TRUE, items |-> <<>>],
     [err |-> FALSE,
      items |-> SetToSeq({r \in c : /\ r.kind = kind
                                    /\ (ns = "" \/ r.ns = ns)
                                    /\ Selects(selector, r)})]}

\* client.CoreV1().Secrets(namespace).Get: the Secret of that name, or an
\* error (not found, or any other).
GetResponses(c, namespace, secretName) ==
    {[err |-> TRUE, data |-> EmptyMap]}
    \cup {[err |-> FALSE, data |-> r.data] :
          r \in {x \in c : x.kind = "secret" /\ x.ns = namespace /\ x.name = secretName}}

\* getPasswordFromSecret, given the answer of its Get call.
getPasswordFromSecret(resp, passwordKey) ==
    IF resp.err THEN [password |-> "", err |-> TRUE]
    ELSE IF passwordKey \notin DOMAIN resp.data THEN [password |-> "", err |-> TRUE]
    ELSE [password |-> resp.data[passwordKey], err |-> FALSE]

-----------------------------------------------------------------------------
(* Filters of the checkers *)

\* Mutant of GlobLoop: a malformed pattern ends the loop ("break").
RECURSIVE GlobLoopBreak(_, _, _, _)
GlobLoopBreak(globs, name, i, errs) ==
    IF i > Len(globs) THEN [flag |-> FALSE, errs |-> errs]
    ELSE LET m == Match(globs[i], name)
         IN  IF m.err THEN [flag |-> FALSE, errs |-> errs + 1]
             ELSE IF m.matched THEN [flag |-> TRUE, errs |-> errs]
             ELSE GlobLoopBreak(globs, name, i + 1, errs)

\* The loop "for _, glob := range globs { flag, err = filepath.Match(glob, name) ... }":
\* the flag it leaves and the number of ErrorTotal.Inc() it makes.
RECURSIVE GlobLoop(_, _, _, _)
GlobLoop(globs, name, i, errs) ==
    IF i > Len(globs) THEN [flag |-> FALSE, errs |-> errs]
    ELSE LET m == Match(globs[i], name)
         IN  IF m.err THEN GlobLoop(globs, name, i + 1, errs + 1)
             ELSE IF m.matched THEN [flag |-> TRUE, errs |-> errs]
             ELSE GlobLoop(globs, name, i + 1, errs)

\* The include loop over p.includeSecretsDataGlobs.
SecretIncludeLoop(p, name) == GlobLoop(p.includeGlobs, name, 1, 0)

\* The exclude loop over p.excludeSecretsDataGlobs.
SecretExcludeLoop(p, name) == GlobLoop(p.excludeGlobs, name, 1, 0)

\* The include loop over p.includeConfigMapsDataGlobs.
ConfigMapIncludeLoop(p, name) == GlobLoop(p.includeGlobs, name, 1, 0)

\* The exclude loop over p.excludeConfigMapsDataGlobs.
ConfigMapExcludeLoop(p, name) == GlobLoop(p.excludeGlobs, name, 1, 0)

\* Mutant of SecretTypeKept: only the first type of the list is compared.
SecretTypeKeptFirstOnly(p, secret) ==
    Len(p.includeTypes) > 0 => secret.type = p.includeTypes[1]

\* "if len(p.includeSecretsTypes) > 0 { ... if !include { continue } }":
\* TRUE when the secret is kept.
SecretTypeKept(p, secret) ==
    Len(p.includeTypes) > 0 =>
        \E i \in 1..Len(p.includeTypes) : secret.type = p.includeTypes[i]

\* Mutant of SecretAnnotationsKept: every selector must be present.
SecretAnnotationsAllPresent(p, secret) ==
    \A i \in 1..Len(p.annotationSelectors) :
        p.annotationSelectors[i] \in DOMAIN secret.annotations

\* "if len(p.annotationSelectors) > 0 { ... if !matches { continue } }" of the
\* Secret checker: TRUE when the secret is kept.
SecretAnnotationsKept(p, secret) ==
    Len(p.annotationSelectors) > 0 =>
        \E i \in 1..Len(p.annotationSelectors) :
            p.annotationSelectors[i] \in DOMAIN secret.annotations

\* The same block of the ConfigMap checker.
ConfigMapAnnotationsKept(p, configMap) ==
    Len(p.annotationSelectors) > 0 =>
        \E i \in 1..Len(p.annotationSelectors) :
            p.annotationSelectors[i] \in DOMAIN configMap.annotations

\* Mutant of CombinedMap: configMap.Data written over configMap.BinaryData.
CombinedMapTextLast(configMap) ==
    [key \in DOMAIN configMap.data \cup DOMAIN configMap.binaryData |->
        IF key \in DOMAIN configMap.data THEN configMap.data[key]
        ELSE configMap.binaryData[key]]

\* combinedMap: configMap.Data, then configMap.BinaryData written over it.
CombinedMap(configMap) ==
    [key \in DOMAIN configMap.data \cup DOMAIN configMap.binaryData |->
        IF key \in DOMAIN configMap.binaryData THEN configMap.binaryData[key]
        ELSE configMap.data[key]]

\* Mutant of SecretSelectorAt: always the first selector.
SecretSelectorFirst(p, j) ==
    IF Len(p.labelSelectors) > 0 THEN p.labelSelectors[1] ELSE NoSelector

\* The label selector of the List call at position j of a namespace: the j-th
\* of p.labelSelectors, or empty ListOptions when there is none.
SecretSelectorAt(p, j) ==
    IF Len(p.labelSelectors) > 0 THEN p.labelSelectors[j] ELSE NoSelector

ConfigMapSelectorAt(p, j) ==
    IF Len(p.labelSelectors) > 0 THEN p.labelSelectors[j] ELSE NoSelector

\* Mutant of SecretNextList: a failed call leaves the selector loop ("break").
SecretNextListBreak(p, i, j, err) ==
    IF j < Len(p.labelSelectors) /\ ~err THEN <<i, j + 1>> ELSE <<i + 1, 1>>

\* Where the two list loops of the Secret checker stand after the call at
\* (i, j): <<nsIdx, selIdx>>. A failed call does "continue", which moves on
\* like a call that succeeded.
SecretNextList(p, i, j, err) ==
    IF j < Len(p.labelSelectors) THEN <<i, j + 1>> ELSE <<i + 1, 1>>

\* The same for the ConfigMap checker.
ConfigMapNextList(p, i, j, err) ==
    IF j < Len(p.labelSelectors) THEN <<i, j + 1>> ELSE <<i + 1, 1>>

\* Mutant of SecretPublishes: the exclude list is forgotten.
SecretPublishesIncluded(include, exclude) == include

\* "if include && !exclude" of the Secret checker
SecretPublishes(include, exclude) == include /\ ~exclude

\* "if include && !exclude" of the ConfigMap checker
ConfigMapPublishes(include, exclude) == include /\ ~exclude

ListRecord(ns, selector, resp) ==
    [ns |-> ns, selector |-> selector, err |-> resp.err, items |-> resp.items]

EntryRecord(item, name, exported, pw, err) ==
    [item |-> item, name |-> name, exported |-> exported, password |-> pw, err |-> err]

LookupRecord(secretName, key, r) ==
    [secret |-> secretName, key |-> key, password |-> r.password, err |-> r.err]

-----------------------------------------------------------------------------
(* PeriodicSecretChecker.StartChecking *)

SK == "secret"

\* Mutant of SecretBegin: the tick starts without ResetMetrics.
SecretBeginNoReset ==
    /\ SK \in running /\ pc[SK] = "begin"
    /\ items' = [items EXCEPT ![SK] = <<>>]
    /\ nsIdx' = [nsIdx EXCEPT ![SK] = 1]
    /\ selIdx' = [selIdx EXCEPT ![SK] = 1]
    /\ itemIdx' = [itemIdx EXCEPT ![SK] = 1]
    /\ pc' = [pc EXCEPT ![SK] = IF Len(cfg[SK].namespaces) > 0 THEN "list" ELSE "item"]
    /\ UNCHANGED <<world, cluster, running, sink, ErrorTotal, pending, cur, password,
                   cfg, listLog, exportLog, lookups, resets, prev>>

\* "Begin periodic check": ResetMetrics, then an empty slice of secrets.
SecretBegin ==
    /\ SK \in running /\ pc[SK] = "begin"
    /\ sink' = SecretResetMetrics(sink)
    /\ resets' = [resets EXCEPT ![SK] = @ + 1]
    /\ items' = [items EXCEPT ![SK] = <<>>]
    /\ nsIdx' = [nsIdx EXCEPT ![SK] = 1]
    /\ selIdx' = [selIdx EXCEPT ![SK] = 1]
    /\ itemIdx' = [itemIdx EXCEPT ![SK] = 1]
    /\ pc' = [pc EXCEPT ![SK] = IF Len(cfg[SK].namespaces) > 0 THEN "list" ELSE "item"]
    /\ UNCHANGED <<world, cluster, running, ErrorTotal, pending, cur, password, cfg,
                   listLog, exportLog, lookups, prev>>

\* One List call of "for _, ns := range p.namespaces", with or without selector.
SecretList ==
    /\ SK \in running /\ pc[SK] = "list"
    /\ LET p == cfg[SK]
           ns == p.namespaces[nsIdx[SK]]
           labelSelector == SecretSelectorAt(p, selIdx[SK])
       IN  \E resp \in ListResponses(cluster, SK, ns, labelSelector) :
             LET next == SecretNextList(p, nsIdx[SK], selIdx[SK], resp.err) IN
             /\ IF resp.err
                THEN /\ ErrorTotal' = ErrorTotal + 1
                     /\ items' = items
                ELSE /\ ErrorTotal' = ErrorTotal
                     /\ items' = [items EXCEPT ![SK] = @ \o resp.items]
             /\ listLog' = [listLog EXCEPT ![SK] = Append(@, ListRecord(ns, labelSelector, resp))]
             /\ nsIdx' = [nsIdx EXCEPT ![SK] = next[1]]
             /\ selIdx' = [selIdx EXCEPT ![SK] = next[2]]
             /\ pc' = [pc EXCEPT ![SK] = IF next[1] > Len(p.namespaces) THEN "item" ELSE "list"]
    /\ UNCHANGED <<world, cluster, running, sink, itemIdx, pending, cur, password, cfg,
                   exportLog, lookups, resets, prev>>

\* Mutant of SecretItem: past the last secret the loop starts over without
\* receiving from periodChannel.
SecretItemNoWait ==
    /\ SK \in running /\ pc[SK] = "item"
    /\ IF itemIdx[SK] > Len(items[SK])
       THEN /\ pc' = [pc EXCEPT ![SK] = "begin"]
            /\ UNCHANGED <<itemIdx, pending>>
       ELSE LET secret == items[SK][itemIdx[SK]]
            IN  IF SecretTypeKept(cfg[SK], secret) /\ SecretAnnotationsKept(cfg[SK], secret)
                THEN /\ pending' = [pending EXCEPT ![SK] = DOMAIN secret.data]
                     /\ pc' = [pc EXCEPT ![SK] = "entry"]
                     /\ UNCHANGED itemIdx
                ELSE /\ itemIdx' = [itemIdx EXCEPT ![SK] = @ + 1]
                     /\ UNCHANGED <<pc, pending>>
    /\ UNCHANGED <<world, cluster, running, sink, ErrorTotal, nsIdx, selIdx, items, cur,
                   password, cfg, listLog, exportLog, lookups, resets, prev>>

\* One iteration head of "for _, secret := range secrets": the type filter and
\* the annotation filter; past the last secret, the tick's work is over.
SecretItem ==
    /\ SK \in running /\ pc[SK] = "item"
    /\ IF itemIdx[SK] > Len(items[SK])
       THEN /\ pc' = [pc EXCEPT ![SK] = "wait"]
            /\ UNCHANGED <<itemIdx, pending>>
       ELSE LET secret == items[SK][itemIdx[SK]]
            IN  IF SecretTypeKept(cfg[SK], secret) /\ SecretAnnotationsKept(cfg[SK], secret)
                THEN /\ pending' = [pending EXCEPT ![SK] = DOMAIN secret.data]
                     /\ pc' = [pc EXCEPT ![SK] = "entry"]
                     /\ UNCHANGED itemIdx
                ELSE /\ itemIdx' = [itemIdx EXCEPT ![SK] = @ + 1]
                     /\ UNCHANGED <<pc, pending>>
    /\ UNCHANGED <<world, cluster, running, sink, ErrorTotal, nsIdx, selIdx, items, cur,
                   password, cfg, listLog, exportLog, lookups, resets, prev>>

\* One iteration head of "for name, bytes := range secret.Data" (any order):
\* the include and exclude glob loops and the test "include && !exclude".
SecretEntry ==
    /\ SK \in running /\ pc[SK] = "entry"
    /\ IF pending[SK] = {}
       THEN /\ itemIdx' = [itemIdx EXCEPT ![SK] = @ + 1]
            /\ pc' = [pc EXCEPT ![SK] = "item"]
            /\ UNCHANGED <<ErrorTotal, pending, cur, exportLog>>
       ELSE \E name \in pending[SK] :
              LET inc == SecretIncludeLoop(cfg[SK], name)
                  exc == SecretExcludeLoop(cfg[SK], name)
              IN  /\ ErrorTotal' = ErrorTotal + inc.errs + exc.errs
                  /\ IF SecretPublishes(inc.flag, exc.flag)
                     THEN /\ cur' = [cur EXCEPT ![SK] = name]
                          /\ pc' = [pc EXCEPT ![SK] = "get1"]
                          /\ UNCHANGED <<pending, exportLog>>
                     ELSE /\ pending' = [pending EXCEPT ![SK] = @ \ {name}]
                          /\ exportLog' = [exportLog EXCEPT ![SK] =
                                 Append(@, EntryRecord(itemIdx[SK], name, FALSE, "", FALSE))]
                          /\ UNCHANGED <<pc, cur>>
                  /\ UNCHANGED itemIdx
    /\ UNCHANGED <<world, cluster, running, sink, nsIdx, selIdx, items, password, cfg,
                   listLog, lookups, resets, prev>>

\* password, err := getPasswordFromSecret(client, ns, secret.Name, "password")
SecretGet1 ==
    /\ SK \in running /\ pc[SK] = "get1"
    /\ LET secret == items[SK][itemIdx[SK]]
       IN  \E resp \in GetResponses(cluster, secret.ns, secret.name) :
             LET r == getPasswordFromSecret(resp, PASSWORD)
             IN  /\ password' = [password EXCEPT ![SK] = r.password]
                 /\ lookups' = [lookups EXCEPT ![SK] =
                        Append(@, LookupRecord(secret.name, PASSWORD, r))]
                 /\ pc' = [pc EXCEPT ![SK] = IF r.password = "" THEN "get2" ELSE "export"]
    /\ UNCHANGED <<world, cluster, running, sink, ErrorTotal, nsIdx, selIdx, items, itemIdx,
                   pending, cur, cfg, listLog, exportLog, resets, prev>>

\* if password == "": the key "<name without extension>.password" of the
\* secret "<secret.Name>-password"
SecretGet2 ==
    /\ SK \in running /\ pc[SK] = "get2"
    /\ LET secret == items[SK][itemIdx[SK]]
           passwordKey == PasswordKey(cur[SK])
       IN  \E resp \in GetResponses(cluster, secret.ns, secret.name \o "-password") :
             LET r == getPasswordFromSecret(resp, passwordKey)
             IN  /\ password' = [password EXCEPT ![SK] = r.password]
                 /\ lookups' = [lookups EXCEPT ![SK] =
                        Append(@, LookupRecord(secret.name \o "-password", passwordKey, r))]
                 /\ pc' = [pc EXCEPT ![SK] = IF r.password = "" THEN "get3" ELSE "export"]
    /\ UNCHANGED <<world, cluster, running, sink, ErrorTotal, nsIdx, selIdx, items, itemIdx,
                   pending, cur, cfg, listLog, exportLog, resets, prev>>

\* Mutant of SecretGet3: a lookup that fails is counted as an error.
SecretGet3CountsError ==
    /\ SK \in running /\ pc[SK] = "get3"
    /\ LET secret == items[SK][itemIdx[SK]]
       IN  \E resp \in GetResponses(cluster, secret.ns, secret.name \o "-password") :
             LET r == getPasswordFromSecret(resp, FullPasswordKey(cur[SK]))
             IN  /\ password' = [password EXCEPT ![SK] = r.password]
                 /\ lookups' = [lookups EXCEPT ![SK] =
                        Append(@, LookupRecord(secret.name \o "-password",
                                               FullPasswordKey(cur[SK]), r))]
                 /\ ErrorTotal' = IF r.err THEN ErrorTotal + 1 ELSE ErrorTotal
                 /\ pc' = [pc EXCEPT ![SK] = "export"]
    /\ UNCHANGED <<world, cluster, running, sink, nsIdx, selIdx, items, itemIdx,
                   pending, cur, cfg, listLog, exportLog, resets, prev>>

\* if password == "": the key "<name>.password" of the same other secret
SecretGet3 ==
    /\ SK \in running /\ pc[SK] = "get3"
    /\ LET secret == items[SK][itemIdx[SK]]
       IN  \E resp \in GetResponses(cluster, secret.ns, secret.name \o "-password") :
             LET r == getPasswordFromSecret(resp, FullPasswordKey(cur[SK]))
             IN  /\ password' = [password EXCEPT ![SK] = r.password]
                 /\ lookups' = [lookups EXCEPT ![SK] =
                        Append(@, LookupRecord(secret.name \o "-password",
                                               FullPasswordKey(cur[SK]), r))]
                 /\ pc' = [pc EXCEPT ![SK] = "export"]
    /\ UNCHANGED <<world, cluster, running, sink, ErrorTotal, nsIdx, selIdx, items, itemIdx,
                   pending, cur, cfg, listLog, exportLog, resets, prev>>

\* Mutant of SecretExport: a Secret whose entry cannot be exported is deleted
\* from the cluster.
SecretExportDeletes ==
    /\ SK \in running /\ pc[SK] = "export"
    /\ LET secret == items[SK][itemIdx[SK]]
           name == cur[SK]
           r == SecretExportMetrics(sink[SK], secret.data[name], name, secret.name,
                                    secret.ns, password[SK], secret.labels)
       IN  /\ sink' = [sink EXCEPT ![SK] = r.series]
           /\ ErrorTotal' = IF r.err THEN ErrorTotal + 1 ELSE ErrorTotal
           /\ cluster' = IF r.err THEN {x \in cluster : ~SameObject(x, secret)} ELSE cluster
           /\ exportLog' = [exportLog EXCEPT ![SK] =
                  Append(@, EntryRecord(itemIdx[SK], name, TRUE, password[SK], r.err))]
           /\ pending' = [pending EXCEPT ![SK] = @ \ {name}]
    /\ pc' = [pc EXCEPT ![SK] = "entry"]
    /\ cur' = [cur EXCEPT ![SK] = <<>>]
    /\ password' = [password EXCEPT ![SK] = ""]
    /\ lookups' = [lookups EXCEPT ![SK] = <<>>]
    /\ UNCHANGED <<world, running, nsIdx, selIdx, items, itemIdx, cfg, listLog, resets, prev>>

\* err = p.exporter.ExportMetrics(bytes, name, secret.Name, secret.Namespace,
\* password, secret.GetLabels()); an error is logged and counted. The
\* iteration ends here and its locals (name, password) go out of scope.
SecretExport ==
    /\ SK \in running /\ pc[SK] = "export"
    /\ LET secret == items[SK][itemIdx[SK]]
           name == cur[SK]
           r == SecretExportMetrics(sink[SK], secret.data[name], name, secret.name,
                                    secret.ns, password[SK], secret.labels)
       IN  /\ sink' = [sink EXCEPT ![SK] = r.series]
           /\ ErrorTotal' = IF r.err THEN ErrorTotal + 1 ELSE ErrorTotal
           /\ exportLog' = [exportLog EXCEPT ![SK] =
                  Append(@, EntryRecord(itemIdx[SK], name, TRUE, password[SK], r.err))]
           /\ pending' = [pending EXCEPT ![SK] = @ \ {name}]
    /\ pc' = [pc EXCEPT ![SK] = "entry"]
    /\ cur' = [cur EXCEPT ![SK] = <<>>]
    /\ password' = [password EXCEPT ![SK] = ""]
    /\ lookups' = [lookups EXCEPT ![SK] = <<>>]
    /\ UNCHANGED <<world, cluster, running, nsIdx, selIdx, items, itemIdx, cfg, listLog, resets, prev>>

\* <-periodChannel: the next tick of the ticker starts the next iteration; the
\* slice of this iteration goes out of scope.
SecretWait ==
    /\ SK \in running /\ pc[SK] = "wait"
    /\ ErrorTotal < MaxErrorTotal
    /\ pc' = [pc EXCEPT ![SK] = "begin"]
    /\ resets' = [resets EXCEPT ![SK] = 0]
    /\ listLog' = [listLog EXCEPT ![SK] = <<>>]
    /\ exportLog' = [exportLog EXCEPT ![SK] = <<>>]
    /\ prev' = [prev EXCEPT ![SK] = {<<s.labels[5], s.labels[4]>> : s \in sink[SK]}]
    /\ items' = [items EXCEPT ![SK] = <<>>]
    /\ itemIdx' = [itemIdx EXCEPT ![SK] = 1]
    /\ UNCHANGED <<world, cluster, running, sink, ErrorTotal, nsIdx, selIdx,
                   pending, cur, password, cfg, lookups>>

SecretStep ==
    \/ SecretBegin \/ SecretList \/ SecretItem \/ SecretEntry
    \/ SecretGet1 \/ SecretGet2 \/ SecretGet3 \/ SecretExport \/ SecretWait

-----------------------------------------------------------------------------
(* PeriodicConfigMapChecker.StartChecking *)

CK == "configMap"

\* The parameters of ConfigMapExporter.ExportMetrics, and the arguments of the
\* call the ConfigMap checker makes.
ConfigMapExportMetricsParams ==
    <<"bytes", "keyName", "configMapName", "configMapNamespace", "password", "labels">>
ConfigMapExportMetricsArgs ==
    <<"data", "name", "configMap.Name", "configMap.Namespace", "password">>

\* The labels argument ExportMetrics receives from the ConfigMap checker, whose
\* call passes none.
NoLabels == EmptyMap

\* Mutant of ConfigMapBegin: the tick cannot begin while a call of the Secret
\* loop is outstanding (a lock shared by the two loops).
ConfigMapBeginBehindSecret ==
    /\ CK \in running /\ pc[CK] = "begin"
    /\ pc[SK] # "hung"
    /\ sink' = ConfigMapResetMetrics(sink)
    /\ resets' = [resets EXCEPT ![CK] = @ + 1]
    /\ items' = [items EXCEPT ![CK] = <<>>]
    /\ nsIdx' = [nsIdx EXCEPT ![CK] = 1]
    /\ selIdx' = [selIdx EXCEPT ![CK] = 1]
    /\ itemIdx' = [itemIdx EXCEPT ![CK] = 1]
    /\ pc' = [pc EXCEPT ![CK] = IF Len(cfg[CK].namespaces) > 0 THEN "list" ELSE "item"]
    /\ UNCHANGED <<world, cluster, running, ErrorTotal, pending, cur, password, cfg,
                   listLog, exportLog, lookups, prev>>

\* "Begin periodic check": ResetMetrics, then an empty slice of configMaps.
ConfigMapBegin ==
    /\ CK \in running /\ pc[CK] = "begin"
    /\ sink' = ConfigMapResetMetrics(sink)
    /\ resets' = [resets EXCEPT ![CK] = @ + 1]
    /\ items' = [items EXCEPT ![CK] = <<>>]
    /\ nsIdx' = [nsIdx EXCEPT ![CK] = 1]
    /\ selIdx' = [selIdx EXCEPT ![CK] = 1]
    /\ itemIdx' = [itemIdx EXCEPT ![CK] = 1]
    /\ pc' = [pc EXCEPT ![CK] = IF Len(cfg[CK].namespaces) > 0 THEN "list" ELSE "item"]
    /\ UNCHANGED <<world, cluster, running, ErrorTotal, pending, cur, password, cfg,
                   listLog, exportLog, lookups, prev>>

\* One List call of "for _, ns := range p.namespaces", with or without selector.
ConfigMapList ==
    /\ CK \in running /\ pc[CK] = "list"
    /\ LET p == cfg[CK]
           ns == p.namespaces[nsIdx[CK]]
           labelSelector == ConfigMapSelectorAt(p, selIdx[CK])
       IN  \E resp \in ListResponses(cluster, CK, ns, labelSelector) :
             LET next == ConfigMapNextList(p, nsIdx[CK], selIdx[CK], resp.err) IN
             /\ IF resp.err
                THEN /\ ErrorTotal' = ErrorTotal + 1
                     /\ items' = items
                ELSE /\ ErrorTotal' = ErrorTotal
                     /\ items' = [items EXCEPT ![CK] = @ \o resp.items]
             /\ listLog' = [listLog EXCEPT ![CK] = Append(@, ListRecord(ns, labelSelector, resp))]
             /\ nsIdx' = [nsIdx EXCEPT ![CK] = next[1]]
             /\ selIdx' = [selIdx EXCEPT ![CK] = next[2]]
             /\ pc' = [pc EXCEPT ![CK] = IF next[1] > Len(p.namespaces) THEN "item" ELSE "list"]
    /\ UNCHANGED <<world, cluster, running, sink, itemIdx, pending, cur, password, cfg,
                   exportLog, lookups, resets, prev>>

\* One iteration head of "for _, configMap := range configMaps": the annotation
\* filter and the keys of combinedMap; past the last one, the tick's work is over.
ConfigMapItem ==
    /\ CK \in running /\ pc[CK] = "item"
    /\ IF itemIdx[CK] > Len(items[CK])
       THEN /\ pc' = [pc EXCEPT ![CK] = "wait"]
            /\ UNCHANGED <<itemIdx, pending>>
       ELSE LET configMap == items[CK][itemIdx[CK]]
            IN  IF ConfigMapAnnotationsKept(cfg[CK], configMap)
                THEN /\ pending' = [pending EXCEPT ![CK] = DOMAIN CombinedMap(configMap)]
                     /\ pc' = [pc EXCEPT ![CK] = "entry"]
                     /\ UNCHANGED itemIdx
                ELSE /\ itemIdx' = [itemIdx EXCEPT ![CK] = @ + 1]
                     /\ UNCHANGED <<pc, pending>>
    /\ UNCHANGED <<world, cluster, running, sink, ErrorTotal, nsIdx, selIdx, items, cur,
                   password, cfg, listLog, exportLog, lookups, resets, prev>>

\* One iteration head of "for name, data := range combinedMap" (any order):
\* the include and exclude glob loops and the test "include && !exclude".
ConfigMapEntry ==
    /\ CK \in running /\ pc[CK] = "entry"
    /\ IF pending[CK] = {}
       THEN /\ itemIdx' = [itemIdx EXCEPT ![CK] = @ + 1]
            /\ pc' = [pc EXCEPT ![CK] = "item"]
            /\ UNCHANGED <<ErrorTotal, pending, cur, exportLog>>
       ELSE \E name \in pending[CK] :
              LET inc == ConfigMapIncludeLoop(cfg[CK], name)
                  exc == ConfigMapExcludeLoop(cfg[CK], name)
              IN  /\ ErrorTotal' = ErrorTotal + inc.errs + exc.errs
                  /\ IF ConfigMapPublishes(inc.flag, exc.flag)
                     THEN /\ cur' = [cur EXCEPT ![CK] = name]
                          /\ pc' = [pc EXCEPT ![CK] = "get2"]
                          /\ UNCHANGED <<pending, exportLog>>
                     ELSE /\ pending' = [pending EXCEPT ![CK] = @ \ {name}]
                          /\ exportLog' = [exportLog EXCEPT ![CK] =
                                 Append(@, EntryRecord(itemIdx[CK], name, FALSE, "", FALSE))]
                          /\ UNCHANGED <<pc, cur>>
                  /\ UNCHANGED itemIdx
    /\ UNCHANGED <<world, cluster, running, sink, nsIdx, selIdx, items, password, cfg,
                   listLog, lookups, resets, prev>>

\* Mutant of ConfigMapGet2: the first stage of the Secret checker, the key
\* "password" of the Secret named like the resource.
ConfigMapGet2AsSecretGet1 ==
    /\ CK \in running /\ pc[CK] = "get2"
    /\ LET configMap == items[CK][itemIdx[CK]]
       IN  \E resp \in GetResponses(cluster, configMap.ns, configMap.name) :
             LET r == getPasswordFromSecret(resp, PASSWORD)
             IN  /\ password' = [password EXCEPT ![CK] = r.password]
                 /\ lookups' = [lookups EXCEPT ![CK] =
                        Append(@, LookupRecord(configMap.name, PASSWORD, r))]
                 /\ pc' = [pc EXCEPT ![CK] = IF r.password = "" THEN "get3" ELSE "export"]
    /\ UNCHANGED <<world, cluster, running, sink, ErrorTotal, nsIdx, selIdx, items, itemIdx,
                   pending, cur, cfg, listLog, exportLog, resets, prev>>

\* password, err := getPasswordFromSecret(client, ns, configMap.Name+"-password",
\* passwordKey), passwordKey being "<name without extension>.password"
ConfigMapGet2 ==
    /\ CK \in running /\ pc[CK] = "get2"
    /\ LET configMap == items[CK][itemIdx[CK]]
           passwordKey == PasswordKey(cur[CK])
       IN  \E resp \in GetResponses(cluster, configMap.ns, configMap.name \o "-password") :
             LET r == getPasswordFromSecret(resp, passwordKey)
             IN  /\ password' = [password EXCEPT ![CK] = r.password]
                 /\ lookups' = [lookups EXCEPT ![CK] =
                        Append(@, LookupRecord(configMap.name \o "-password", passwordKey, r))]
                 /\ pc' = [pc EXCEPT ![CK] = IF r.password = "" THEN "get3" ELSE "export"]
    /\ UNCHANGED <<world, cluster, running, sink, ErrorTotal, nsIdx, selIdx, items, itemIdx,
                   pending, cur, cfg, listLog, exportLog, resets, prev>>

\* if password == "": the key "<name>.password" of the same secret
ConfigMapGet3 ==
    /\ CK \in running /\ pc[CK] = "get3"
    /\ LET configMap == items[CK][itemIdx[CK]]
       IN  \E resp \in GetResponses(cluster, configMap.ns, configMap.name \o "-password") :
             LET r == getPasswordFromSecret(resp, FullPasswordKey(cur[CK]))
             IN  /\ password' = [password EXCEPT ![CK] = r.password]
                 /\ lookups' = [lookups EXCEPT ![CK] =
                        Append(@, LookupRecord(configMap.name \o "-password",
                                               FullPasswordKey(cur[CK]), r))]
                 /\ pc' = [pc EXCEPT ![CK] = "export"]
    /\ UNCHANGED <<world, cluster, running, sink, ErrorTotal, nsIdx, selIdx, items, itemIdx,
                   pending, cur, cfg, listLog, exportLog, resets, prev>>

\* Mutant of ConfigMapExport: an export error ends StartChecking ("return").
ConfigMapExportReturns ==
    /\ CK \in running /\ pc[CK] = "export"
    /\ LET configMap == items[CK][itemIdx[CK]]
           name == cur[CK]
           r == ConfigMapExportMetrics(sink[CK], CombinedMap(configMap)[name], name,
                                       configMap.name, configMap.ns, password[CK], NoLabels)
       IN  /\ sink' = [sink EXCEPT ![CK] = r.series]
           /\ ErrorTotal' = IF r.err THEN ErrorTotal + 1 ELSE ErrorTotal
           /\ exportLog' = [exportLog EXCEPT ![CK] =
                  Append(@, EntryRecord(itemIdx[CK], name, TRUE, password[CK], r.err))]
           /\ pending' = [pending EXCEPT ![CK] = @ \ {name}]
           /\ pc' = [pc EXCEPT ![CK] = IF r.err THEN "returned" ELSE "entry"]
    /\ cur' = [cur EXCEPT ![CK] = <<>>]
    /\ password' = [password EXCEPT ![CK] = ""]
    /\ lookups' = [lookups EXCEPT ![CK] = <<>>]
    /\ UNCHANGED <<world, cluster, running, nsIdx, selIdx, items, itemIdx, cfg,
                   listLog, resets, prev>>

\* err = p.exporter.ExportMetrics(data, name, configMap.Name, configMap.Namespace,
\* password); an error is logged and counted. The iteration ends here and
\* its locals (name, password) go out of scope.
ConfigMapExport ==
    /\ CK \in running /\ pc[CK] = "export"
    /\ LET configMap == items[CK][itemIdx[CK]]
           name == cur[CK]
           r == ConfigMapExportMetrics(sink[CK], CombinedMap(configMap)[name], name,
                                       configMap.name, configMap.ns, password[CK], NoLabels)
       IN  /\ sink' = [sink EXCEPT ![CK] = r.series]
           /\ ErrorTotal' = IF r.err THEN ErrorTotal + 1 ELSE ErrorTotal
           /\ exportLog' = [exportLog EXCEPT ![CK] =
                  Append(@, EntryRecord(itemIdx[CK], name, TRUE, password[CK], r.err))]
           /\ pending' = [pending EXCEPT ![CK] = @ \ {name}]
    /\ pc' = [pc EXCEPT ![CK] = "entry"]
    /\ cur' = [cur EXCEPT ![CK] = <<>>]
    /\ password' = [password EXCEPT ![CK] = ""]
    /\ lookups' = [lookups EXCEPT ![CK] = <<>>]
    /\ UNCHANGED <<world, cluster, running, nsIdx, selIdx, items, itemIdx, cfg, listLog, resets, prev>>

\* <-periodChannel: the next tick of the ticker starts the next iteration; the
\* slice of this iteration goes out of scope.
ConfigMapWait ==
    /\ CK \in running /\ pc[CK] = "wait"
    /\ ErrorTotal < MaxErrorTotal
    /\ pc' = [pc EXCEPT ![CK] = "begin"]
    /\ resets' = [resets EXCEPT ![CK] = 0]
    /\ listLog' = [listLog EXCEPT ![CK] = <<>>]
    /\ exportLog' = [exportLog EXCEPT ![CK] = <<>>]
    /\ prev' = [prev EXCEPT ![CK] = {<<s.labels[5], s.labels[4]>> : s \in sink[CK]}]
    /\ items' = [items EXCEPT ![CK] = <<>>]
    /\ itemIdx' = [itemIdx EXCEPT ![CK] = 1]
    /\ UNCHANGED <<world, cluster, running, sink, ErrorTotal, nsIdx, selIdx,
                   pending, cur, password, cfg, lookups>>

ConfigMapStep ==
    \/ ConfigMapBegin \/ ConfigMapList \/ ConfigMapItem \/ ConfigMapEntry
    \/ ConfigMapGet2 \/ ConfigMapGet3 \/ ConfigMapExport \/ ConfigMapWait

-----------------------------------------------------------------------------
(* Resources, configurations and the runs explored *)

Ntc == <<"t", ".", "c">>
Ntk == <<"t", ".", "k">>
Njp == <<"j", ".", "p">>
NjBasePw == <<"j">> \o DOTPASSWORD
NjFullPw == Njp \o DOTPASSWORD

Gcrt == <<"*", ".", "c">>
Gkey == <<"*", ".", "k">>
Gks == <<"*", ".", "p">>
Gany == <<"*">>
Gt == <<"t", ".", "?">>
Gbad == <<"[">>

App == <<"app", "a">>
Tier == <<"tier", "b">>

TlsA == Resource("secret", "n1", "tls1", ("app" :> "a" @@ "serviceline" :> "pay"),
                 ("x" :> "1"), "tls", (Ntc :> "pemA" @@ Ntk :> "key"), EmptyMap)
TlsA2 == Resource("secret", "n1", "tls1",
                  ("app" :> "a" @@ "tier" :> "b" @@ "serviceline" :> "pay"),
                  ("y" :> ""), "tls", (Ntc :> "pemA2"), EmptyMap)
TlsB == Resource("secret", "n2", "tls2", ("tier" :> "b"),
                 EmptyMap, "Opaque", (Ntc :> "pemAB"), EmptyMap)
Jks == Resource("secret", "n1", "jks", ("app" :> "a"),
                EmptyMap, "Opaque", (Njp :> "p12" @@ PASSWORD :> "s3"), EmptyMap)
Jks0 == Resource("secret", "n1", "jks", ("app" :> "a"),
                 EmptyMap, "Opaque", (Njp :> "p12" @@ PASSWORD :> ""), EmptyMap)
JksPwBase == Resource("secret", "n1", "jks-password", EmptyMap,
                      EmptyMap, "Opaque", (NjBasePw :> "s3"), EmptyMap)
JksPwFull == Resource("secret", "n1", "jks-password", EmptyMap,
                      EmptyMap, "Opaque", (NjFullPw :> "s3"), EmptyMap)

CmA == Resource("configMap", "n1", "jks", ("app" :> "a" @@ "serviceline" :> "ops"),
                ("x" :> ""), "", (Ntc :> "pemA" @@ Njp :> "text"), (Njp :> "p12"))
CmA2 == Resource("configMap", "n1", "jks", ("app" :> "a" @@ "tier" :> "b"),
                 ("y" :> "1"), "", (Ntc :> "pemA2" @@ Ntk :> "pemA"), EmptyMap)
CmB == Resource("configMap", "n2", "ca", ("tier" :> "b"),
                EmptyMap, "", (Ntc :> "pemAB" @@ Ntk :> "key"), EmptyMap)

Config(namespaces, labelSelectors, annotationSelectors, includeGlobs, excludeGlobs, includeTypes) ==
    [namespaces |-> namespaces, labelSelectors |-> labelSelectors,
     annotationSelectors |-> annotationSelectors, includeGlobs |-> includeGlobs,
     excludeGlobs |-> excludeGlobs, includeTypes |-> includeTypes]

Idle == Config(<<>>, <<>>, <<>>, <<>>, <<>>, <<>>)

Run(kinds, secretCfg, configMapCfg, w) ==
    [running |-> kinds, secret |-> secretCfg, configMap |-> configMapCfg, world |-> w]

\* The runs explored: the kinds started, their flags, and what the cluster may hold.
Runs ==
    { \* Secret checker: namespaces, label selectors
      Run({SK}, Config(<<"n1", "n2">>, <<App, Tier>>, <<>>, <<Gt>>, <<>>, <<>>), Idle,
          {TlsA, TlsA2, TlsB}),
      \* Secret checker: every namespace, annotation selectors
      Run({SK}, Config(<<"">>, <<>>, <<"y", "x">>, <<Gcrt>>, <<>>, <<>>), Idle,
          {TlsA, TlsA2, TlsB}),
      \* Secret checker: type allowlist
      Run({SK}, Config(<<"">>, <<>>, <<>>, <<Gcrt>>, <<>>, <<"kubernetes.io/tls", "tls">>), Idle,
          {TlsA, TlsB}),
      \* Secret checker: malformed and overlapping globs
      Run({SK}, Config(<<"n1">>, <<>>, <<>>, <<Gbad, Gt>>, <<Gbad, Gkey>>, <<>>), Idle,
          {TlsA, TlsA2}),
      \* Secret checker: everything included, passwords
      Run({SK}, Config(<<"n1">>, <<App>>, <<>>, <<Gany>>, <<Gcrt>>, <<>>), Idle,
          {TlsA, Jks, Jks0, JksPwBase, JksPwFull}),
      \* Secret checker: no include glob
      Run({SK}, Config(<<"n1">>, <<>>, <<>>, <<>>, <<Gkey>>, <<>>), Idle, {TlsA, Jks}),
      \* ConfigMap checker: namespaces, label selectors
      Run({CK}, Idle, Config(<<"n1", "n2">>, <<App, Tier>>, <<>>, <<Gcrt>>, <<>>, <<>>),
          {CmA2, CmB}),
      \* ConfigMap checker: every namespace, annotation selectors, everything included
      Run({CK}, Idle, Config(<<"">>, <<>>, <<"y", "x">>, <<Gany>>, <<>>, <<>>),
          {CmA, CmA2, CmB, Jks, JksPwBase, JksPwFull}),
      \* ConfigMap checker: malformed and overlapping globs
      Run({CK}, Idle, Config(<<"n2">>, <<>>, <<>>, <<Gt, Gbad>>, <<Gkey, Gbad>>, <<>>),
          {CmB}),
      \* ConfigMap checker: no include glob
      Run({CK}, Idle, Config(<<"n1">>, <<>>, <<>>, <<>>, <<Gkey>>, <<>>), {CmA}),
      \* both checkers
      Run({SK, CK}, Config(<<"n1">>, <<>>, <<>>, <<Gcrt>>, <<>>, <<>>),
          Config(<<"n1">>, <<>>, <<>>, <<Gcrt>>, <<>>, <<>>), {TlsA, CmA})
    }

\* The sets of resources that can exist together: one object per kind,
\* namespace and name.
Clusters(w) ==
    {c \in SUBSET w : \A r1, r2 \in c : SameObject(r1, r2) => r1 = r2}

\* The runs of the liveness check: each checker alone, two label selectors,
\* every entry included, key stores with and without their password.
LiveRuns ==
    { Run({SK}, Config(<<"n1">>, <<Tier, App>>, <<>>, <<Gany>>, <<>>, <<>>), Idle,
          {Jks, Jks0, JksPwBase}),
      Run({CK}, Idle, Config(<<"n1">>, <<Tier, App>>, <<>>, <<Gany>>, <<>>, <<>>),
          {CmA, JksPwBase})
    }

\* The state after NewSecretChecker / NewConfigMapChecker and before the first
\* tick, for one of the given runs.
InitFrom(runs) ==
    \E run \in runs :
        /\ world = run.world
        /\ cluster \in Clusters(run.world)
        /\ running = run.running
        /\ cfg = [k \in Kinds |-> IF k = SK THEN run.secret ELSE run.configMap]
        /\ sink = [k \in Kinds |-> {}]
        /\ ErrorTotal = 0
        /\ pc = [k \in Kinds |-> "begin"]
        /\ nsIdx = [k \in Kinds |-> 1]
        /\ selIdx = [k \in Kinds |-> 1]
        /\ items = [k \in Kinds |-> <<>>]
        /\ itemIdx = [k \in Kinds |-> 1]
        /\ pending = [k \in Kinds |-> {}]
        /\ cur = [k \in Kinds |-> <<>>]
        /\ password = [k \in Kinds |-> ""]
        /\ listLog = [k \in Kinds |-> <<>>]
        /\ exportLog = [k \in Kinds |-> <<>>]
        /\ lookups = [k \in Kinds |-> <<>>]
        /\ resets = [k \in Kinds |-> 0]
        /\ prev = [k \in Kinds |-> {}]

Init == InitFrom(Runs)

LiveInit == InitFrom(LiveRuns)

\* Somebody else creates, deletes or updates a resource of the cluster.
ClusterCreate ==
    /\ \E r \in world \ cluster :
          /\ \A x \in cluster : ~SameObject(x, r)
          /\ cluster' = cluster \cup {r}
    /\ UNCHANGED <<world, running, sink, ErrorTotal, pc, nsIdx, selIdx, items, itemIdx,
                   pending, cur, password, cfg, listLog, exportLog, lookups, resets, prev>>

ClusterDelete ==
    /\ \E r \in cluster : cluster' = cluster \ {r}
    /\ UNCHANGED <<world, running, sink, ErrorTotal, pc, nsIdx, selIdx, items, itemIdx,
                   pending, cur, password, cfg, listLog, exportLog, lookups, resets, prev>>

ClusterUpdate ==
    /\ \E r \in cluster, u \in world \ cluster :
          /\ SameObject(r, u)
          /\ cluster' = (cluster \ {r}) \cup {u}
    /\ UNCHANGED <<world, running, sink, ErrorTotal, pc, nsIdx, selIdx, items, itemIdx,
                   pending, cur, password, cfg, listLog, exportLog, lookups, resets, prev>>

ClusterStep == ClusterCreate \/ ClusterDelete \/ ClusterUpdate

Next == SecretStep \/ ConfigMapStep \/ ClusterStep

Spec == Init /\ [][Next]_vars

\* Each StartChecking runs in a go routine of its own: the scheduler lets it
\* take its next step, an API call returns, and the ticker fires.
LiveSpec ==
    LiveInit /\ [][Next]_vars /\ WF_vars(SecretStep) /\ WF_vars(ConfigMapStep)

\* A List call that never returns: context.TODO() carries no deadline and the
\* call has no timeout, so the go routine stays in it.
SecretListHangs ==
    /\ SK \in running /\ pc[SK] = "list"
    /\ pc' = [pc EXCEPT ![SK] = "hung"]
    /\ UNCHANGED <<world, cluster, running, sink, ErrorTotal, nsIdx, selIdx, items, itemIdx,
                   pending, cur, password, cfg, listLog, exportLog, lookups, resets, prev>>

ConfigMapListHangs ==
    /\ CK \in running /\ pc[CK] = "list"
    /\ pc' = [pc EXCEPT ![CK] = "hung"]
    /\ UNCHANGED <<world, cluster, running, sink, ErrorTotal, nsIdx, selIdx, items, itemIdx,
                   pending, cur, password, cfg, listLog, exportLog, lookups, resets, prev>>

\* The runs in which a List call may hang: both checkers, and each alone.
HangRuns ==
    { Run({SK, CK}, Config(<<"n1">>, <<>>, <<>>, <<Gcrt>>, <<>>, <<>>),
          Config(<<"n1">>, <<>>, <<>>, <<Gcrt>>, <<>>, <<>>), {TlsA, CmA}),
      Run({SK}, Config(<<"n1">>, <<>>, <<>>, <<Gcrt>>, <<>>, <<>>), Idle, {TlsA, TlsA2})
    }

HangInit == InitFrom(HangRuns)

HangNext == Next \/ SecretListHangs \/ ConfigMapListHangs

\* The go routines are scheduled and a call that returns is followed by the
\* loop's next step; whether a List call returns is up to the cluster.
HangSpec ==
    HangInit /\ [][HangNext]_vars /\ WF_vars(SecretStep) /\ WF_vars(ConfigMapStep)

-----------------------------------------------------------------------------
(* What the claims speak of, stated on the tick's history *)

Range(seq) == {seq[i] : i \in 1..Len(seq)}

\* The name matches at least one pattern of the list.
MatchesAny(globs, name) == \E i \in 1..Len(globs) : Match(globs[i], name).matched

\* The data entries a checker iterates over for a listed resource.
EntriesOf(k, r) == IF k = SK THEN r.data ELSE CombinedMap(r)

\* The resource passes the resource-level filters of its kind: the type
\* allowlist (Secrets only) and the annotation selectors.
TypeAllowed(k, r) ==
    k = SK => (cfg[k].includeTypes = <<>> \/ r.type \in Range(cfg[k].includeTypes))

AnnotationAllowed(k, r) ==
    cfg[k].annotationSelectors = <<>>
    \/ Range(cfg[k].annotationSelectors) \cap DOMAIN r.annotations # {}

PassesResourceFilters(k, r) == TypeAllowed(k, r) /\ AnnotationAllowed(k, r)

\* The entry passes the glob filter.
PassesGlobs(k, name) ==
    MatchesAny(cfg[k].includeGlobs, name) /\ ~MatchesAny(cfg[k].excludeGlobs, name)

\* The ExportMetrics calls of the tick so far, and those that returned no error.
Exported(k) == {e \in Range(exportLog[k]) : e.exported}
Succeeded(k) == {e \in Exported(k) : ~e.err}

\* The series the successful ExportMetrics calls of the tick produced.
Produced(k) ==
    UNION {{[labels |-> <<e.name, c.issuer, c.cn, items[k][e.item].name,
                          items[k][e.item].ns>>,
             value |-> c.notAfter] :
            c \in Range(Decode(EntriesOf(k, items[k][e.item])[e.name], e.password).certs)} :
           e \in Succeeded(k)}

\* A series without its last label (the serviceline).
Short(s) == [labels |-> SubSeq(s.labels, 1, 5), value |-> s.value]

\* The resources the successful List calls of the tick returned.
Listed(k) == UNION {Range(l.items) : l \in {x \in Range(listLog[k]) : ~x.err}}

\* C1: in every tick of either loop ResetMetrics is called exactly once, and
\* before any List call and any ExportMetrics call of that tick: no call is
\* on record while the tick has not reset, and the count never exceeds one.
C1_ResetOnceAndFirst ==
    \A k \in Kinds :
        /\ resets[k] <= 1
        /\ (pc[k] # "begin") => resets[k] = 1
        /\ (listLog[k] # <<>> \/ exportLog[k] # <<>> \/ items[k] # <<>>) => resets[k] = 1

\* Both loops have ended a tick in which they listed and exported.
C1_Witness ==
    \A k \in Kinds :
        pc[k] = "wait" /\ resets[k] = 1 /\ listLog[k] # <<>> /\ Succeeded(k) # {}

\* C2: when a tick ends, the series of the kind are exactly those the tick's
\* successful exports produced, and each belongs to an entry that passes the
\* globs of a resource that the tick listed and that passes the resource
\* filters; nothing of an earlier tick is left.
C2_SeriesAreThisTicks ==
    \A k \in Kinds :
        pc[k] = "wait" =>
            /\ {Short(s).labels : s \in sink[k]} = {p.labels : p \in Produced(k)}
            /\ {Short(s) : s \in sink[k]} \subseteq Produced(k)
            /\ \A s \in sink[k] :
                 \E r \in Listed(k) :
                    /\ r.name = s.labels[4] /\ r.ns = s.labels[5]
                    /\ PassesResourceFilters(k, r)
                    /\ s.labels[1] \in DOMAIN EntriesOf(k, r)
                    /\ PassesGlobs(k, s.labels[1])

\* A tick has ended with series, while an object that had series when the
\* tick before ended was not listed any more and has none left.
C2_Witness ==
    \E k \in Kinds :
        /\ pc[k] = "wait" /\ sink[k] # {}
        /\ \E o \in prev[k] :
             /\ \A r \in Listed(k) : <<r.ns, r.name>> # o
             /\ \A s \in sink[k] : <<s.labels[5], s.labels[4]>> # o

\* C3: of the resources that passed the resource filters, an entry is handed
\* to ExportMetrics if and only if its name matches an include pattern and no
\* exclude pattern; with an empty include list nothing is exported. Every
\* entry of a finished resource is decided exactly once.
C3_ExportedIffGlobs ==
    \A k \in Kinds :
        /\ \A e \in Range(exportLog[k]) : e.exported <=> PassesGlobs(k, e.name)
        /\ cfg[k].includeGlobs = <<>> => Exported(k) = {}
        /\ \A i \in 1..Len(items[k]) :
             (i < itemIdx[k] /\ PassesResourceFilters(k, items[k][i])) =>
                \A name \in DOMAIN EntriesOf(k, items[k][i]) :
                    Cardinality({j \in 1..Len(exportLog[k]) :
                                    /\ exportLog[k][j].item = i
                                    /\ exportLog[k][j].name = name}) = 1

\* A tick has ended in which one entry was exported and another, which matches
\* an include pattern and an exclude pattern, was not.
C3_Witness ==
    \E k \in Kinds :
        /\ pc[k] = "wait"
        /\ Exported(k) # {}
        /\ \E e \in Range(exportLog[k]) :
             /\ ~e.exported
             /\ MatchesAny(cfg[k].includeGlobs, e.name)
             /\ MatchesAny(cfg[k].excludeGlobs, e.name)

\* The entry name without its extension: what precedes its last dot.
NameWithoutExtension(name) ==
    IF \A i \in 1..Len(name) : name[i] # "." THEN name
    ELSE SubSeq(name, 1, (CHOOSE i \in 1..Len(name) :
                            /\ name[i] = "."
                            /\ \A j \in (i + 1)..Len(name) : name[j] # ".") - 1)

\* The values the key has now in the Secret of that name (none when the
\* Secret or the key is missing).
ValuesNow(namespace, secretName, key) ==
    {r.data[key] : r \in {x \in cluster : /\ x.kind = "secret"
                                          /\ x.ns = namespace
                                          /\ x.name = secretName
                                          /\ key \in DOMAIN x.data}}

\* The first non-empty password of a sequence of lookups, "" when there is none.
RECURSIVE FirstNonEmpty(_)
FirstNonEmpty(ls) ==
    IF ls = <<>> THEN ""
    ELSE IF Head(ls).password # "" THEN Head(ls).password
    ELSE FirstNonEmpty(Tail(ls))

\* What one step of the Secret checker must satisfy for C4.
C4_Step ==
    LET secret == items[SK][itemIdx[SK]]
        before == lookups[SK]
        after == lookups'[SK]
        n == Len(after)
        l == after[n]
    IN  /\ (pc[SK] = "entry" /\ pc'[SK] \notin {"entry", "item"}) =>
              (pc'[SK] = "get1" /\ after = <<>>)
        /\ (n = Len(before) + 1) =>
              /\ n <= 3
              /\ \A i \in 1..Len(before) : before[i].password = "" /\ after[i] = before[i]
              /\ l.secret = IF n = 1 THEN secret.name ELSE secret.name \o "-password"
              /\ l.key = CASE n = 1 -> PASSWORD
                           [] n = 2 -> NameWithoutExtension(cur[SK]) \o DOTPASSWORD
                           [] OTHER -> cur[SK] \o DOTPASSWORD
              /\ l.password \in ValuesNow(secret.ns, l.secret, l.key) \cup {""}
              /\ l.err => l.password = ""
              /\ password'[SK] = l.password
              /\ pc'[SK] = IF l.password # "" \/ n = 3 THEN "export"
                           ELSE IF n = 1 THEN "get2" ELSE "get3"
        /\ (Len(exportLog'[SK]) = Len(exportLog[SK]) + 1
            /\ exportLog'[SK][Len(exportLog'[SK])].exported) =>
              /\ before # <<>>
              /\ exportLog'[SK][Len(exportLog'[SK])].password = FirstNonEmpty(before)
              /\ (FirstNonEmpty(before) = "" => Len(before) = 3)

\* C4: the password of an included Secret entry is resolved in three ordered
\* stages (key "password" of the same Secret, key "<name without
\* extension>.password" of "<secret>-password", key "<name>.password" of
\* "<secret>-password"); a stage is consulted only when every earlier one
\* yielded "", through an error or not; the first non-empty value, or "" when
\* there is none, is the password ExportMetrics gets.
C4_PasswordStages == [][C4_Step]_vars

\* The third stage has found the password after the first found the key
\* "password" empty and the second failed.
C4_Witness ==
    /\ pc[SK] = "export" /\ password[SK] = "s3"
    /\ Len(lookups[SK]) = 3
    /\ ~lookups[SK][1].err /\ lookups[SK][2].err

\* The List calls a tick has to make, in order: per namespace, one per label
\* selector, or one without selector when there is no selector.
ExpectedCalls(p) ==
    LET m == IF p.labelSelectors = <<>> THEN 1 ELSE Len(p.labelSelectors)
    IN  [n \in 1..(Len(p.namespaces) * m) |->
            <<p.namespaces[((n - 1) \div m) + 1],
              IF p.labelSelectors = <<>> THEN NoSelector
              ELSE p.labelSelectors[((n - 1) % m) + 1]>>]

\* The List calls the tick has made so far.
Calls(k) == [n \in 1..Len(listLog[k]) |-> <<listLog[k][n].ns, listLog[k][n].selector>>]

\* The items of the successful calls of a list history, one after the other.
RECURSIVE ConcatItems(_)
ConcatItems(log) ==
    IF log = <<>> THEN <<>>
    ELSE (IF Head(log).err THEN <<>> ELSE Head(log).items) \o ConcatItems(Tail(log))

\* Every listed resource that passes the resource filters had each entry that
\* passes the globs handed to ExportMetrics.
AllQualifyingExported(k) ==
    \A i \in 1..Len(items[k]) :
        PassesResourceFilters(k, items[k][i]) =>
            \A name \in DOMAIN EntriesOf(k, items[k][i]) :
                PassesGlobs(k, name) =>
                    \E e \in Exported(k) : e.item = i /\ e.name = name

\* The tick is over and has done all its work.
TickDone(k) ==
    /\ pc[k] = "wait"
    /\ Calls(k) = ExpectedCalls(cfg[k])
    /\ itemIdx[k] = Len(items[k]) + 1
    /\ AllQualifyingExported(k)

C6_Step ==
    \A k \in Kinds :
        LET n == Len(exportLog'[k])
            e == exportLog'[k][n]
            r == items[k][e.item]
        IN  /\ (n = Len(exportLog[k]) + 1 /\ e.exported
                /\ Decode(EntriesOf(k, r)[e.name], e.password).err) =>
                  /\ e.err
                  /\ ErrorTotal' = ErrorTotal + 1
                  /\ sink' = sink
                  /\ pc'[k] = "entry"
                  /\ pending'[k] = pending[k] \ {e.name}
                  /\ items'[k] = items[k] /\ itemIdx'[k] = itemIdx[k]
            /\ (pc[k] # "wait" /\ pc'[k] = "wait") => AllQualifyingExported(k)'

\* C6: an ExportMetrics call that cannot decode the bytes adds exactly one to
\* the error counter and publishes nothing, and the loop goes on with the
\* other entries: at the end of the tick every qualifying entry of every
\* listed resource has been handed to ExportMetrics.
C6_ExportErrorIsLocal == [][C6_Step]_vars

\* A tick has ended in which one entry of a resource failed to export, has no
\* series, and another entry of the same resource was exported.
C6_Witness ==
    \E k \in Kinds :
        /\ pc[k] = "wait"
        /\ \E bad, good \in Exported(k) :
              /\ bad.err /\ ~good.err /\ bad.item = good.item
              /\ \A s \in sink[k] : s.labels[1] # bad.name

\* What one step must satisfy for C7.
C7_Step ==
    \A k \in Kinds :
        LET n == Len(listLog'[k])
            l == listLog'[k][n]
        IN  /\ (n = Len(listLog[k]) + 1 /\ l.err) =>
                  /\ ErrorTotal' = ErrorTotal + 1
                  /\ items'[k] = items[k]
                  /\ pc'[k] = IF n = Len(ExpectedCalls(cfg[k])) THEN "item" ELSE "list"
            /\ (n = Len(listLog[k]) + 1) =>
                  /\ n <= Len(ExpectedCalls(cfg[k]))
                  /\ <<l.ns, l.selector>> = ExpectedCalls(cfg[k])[n]
                  /\ items'[k] = ConcatItems(listLog'[k])
            /\ (pc[k] # "wait" /\ pc'[k] = "wait") => TickDone(k)'

\* C7: a failed List call adds exactly one to the error counter and no
\* resource to the tick; the calls for the remaining selectors and namespaces
\* are still made, in order, and what they return is processed in the tick.
C7_ListErrorIsLocal == [][C7_Step]_vars

\* A tick has ended in which a List call failed and a later call of the same
\* namespace returned a resource that was then exported.
C7_Witness ==
    \E k \in Kinds :
        /\ pc[k] = "wait"
        /\ \E i, j \in 1..Len(listLog[k]) :
              /\ i < j /\ listLog[k][i].err /\ listLog[k][i].ns = listLog[k][j].ns
              /\ ~listLog[k][j].err /\ listLog[k][j].items # <<>>
        /\ Succeeded(k) # {}

\* The series (without serviceline) a successful export on record produced.
ProducedBy(k, e) ==
    {[labels |-> <<e.name, c.issuer, c.cn, items[k][e.item].name, items[k][e.item].ns>>,
      value |-> c.notAfter] :
     c \in Range(Decode(EntriesOf(k, items[k][e.item])[e.name], e.password).certs)}

\* C8: the resources of a tick are, per namespace, the results of one List
\* call per label selector (one call without selector when there is none),
\* one after the other and not deduplicated; every copy is processed; the sink
\* holds one series per label tuple, and its value is the one the last
\* successful processing of that entry produced.
C8_UnionOfSelectors ==
    \A k \in Kinds :
        /\ pc[k] \notin {"begin", "list"} => Calls(k) = ExpectedCalls(cfg[k])
        /\ pc[k] # "begin" => items[k] = ConcatItems(listLog[k])
        /\ \A i \in 1..Len(items[k]) :
              (i < itemIdx[k] /\ PassesResourceFilters(k, items[k][i])) =>
                 \A name \in DOMAIN EntriesOf(k, items[k][i]) :
                    \E e \in Range(exportLog[k]) : e.item = i /\ e.name = name
        /\ \A s1, s2 \in sink[k] : s1.labels = s2.labels => s1 = s2
        /\ pc[k] # "begin" =>
              \A s \in sink[k] :
                 LET writers == {j \in 1..Len(exportLog[k]) :
                                    /\ exportLog[k][j].exported /\ ~exportLog[k][j].err
                                    /\ \E q \in ProducedBy(k, exportLog[k][j]) :
                                          q.labels = Short(s).labels}
                 IN  /\ writers # {}
                     /\ Short(s) \in ProducedBy(k, exportLog[k][
                            CHOOSE j \in writers : \A j2 \in writers : j2 <= j])

\* A tick has ended in which two selectors returned the same resource, and
\* both copies were exported.
C8_Witness ==
    /\ pc[SK] = "wait" /\ Len(cfg[SK].labelSelectors) > 1
    /\ \E i, j \in 1..Len(items[SK]) :
          /\ i < j /\ items[SK][i] = items[SK][j]
          /\ \E e1, e2 \in Succeeded(SK) : e1.item = i /\ e2.item = j

\* C9: a listed resource goes on to its entries if and only if the annotation
\* selector list is empty or one of its selectors is a key of the resource's
\* annotations, whatever the value (and, for a Secret, its type is allowed);
\* no entry of a resource that fails the filter is looked at or exported.
C9_AnnotationFilter ==
    \A k \in Kinds :
        /\ \A e \in Range(exportLog[k]) : AnnotationAllowed(k, items[k][e.item])
        /\ pc[k] \in {"entry", "get1", "get2", "get3", "export"} =>
              AnnotationAllowed(k, items[k][itemIdx[k]])
        /\ \A i \in 1..Len(items[k]) :
              (i < itemIdx[k] /\ AnnotationAllowed(k, items[k][i]) /\ TypeAllowed(k, items[k][i])) =>
                 \A name \in DOMAIN EntriesOf(k, items[k][i]) :
                    \E e \in Range(exportLog[k]) : e.item = i /\ e.name = name

\* A tick has ended with annotation selectors set: a resource that has only
\* the second selector, with a non-empty value, was exported, and a resource
\* without any of them was skipped.
C9_Witness ==
    \E k \in Kinds :
        /\ pc[k] = "wait" /\ Len(cfg[k].annotationSelectors) > 1
        /\ \E i, j \in 1..Len(items[k]) :
              /\ cfg[k].annotationSelectors[1] \notin DOMAIN items[k][i].annotations
              /\ \E a \in DOMAIN items[k][i].annotations : items[k][i].annotations[a] # ""
              /\ \E e \in Succeeded(k) : e.item = i
              /\ ~AnnotationAllowed(k, items[k][j])
              /\ DOMAIN EntriesOf(k, items[k][j]) # {}

\* The loop of kind k took the step.
Moved(k) ==
    <<pc[k], nsIdx[k], selIdx[k], items[k], itemIdx[k], pending[k], cur[k], password[k],
      listLog[k], exportLog[k], lookups[k], resets[k], prev[k]>>' #
    <<pc[k], nsIdx[k], selIdx[k], items[k], itemIdx[k], pending[k], cur[k], password[k],
      listLog[k], exportLog[k], lookups[k], resets[k], prev[k]>>

\* What one step must satisfy for C10.
C10_Step ==
    \A k \in Kinds :
        LET o == CHOOSE x \in Kinds : x # k
        IN  /\ resets'[k] = resets[k] + 1 => (sink'[k] = {} /\ sink'[o] = sink[o])
            /\ Moved(k) => (sink'[o] = sink[o] /\ ~Moved(o))
            /\ (pc[k] # "wait" /\ pc'[k] = "wait") =>
                  {Short(s).labels : s \in sink'[k]} = {q.labels : q \in Produced(k)'}

\* C10: the two loops share the sink only: a step of one loop, its
\* ResetMetrics included, changes neither the series nor the loop state of the
\* other kind, so that in every interleaving the series a kind has at the end
\* of its tick are those its own exports of that tick produced.
C10_KindsDoNotInterfere == [][C10_Step]_vars

\* Both loops run; the ConfigMap loop has just reset, in a tick after one in
\* which it published, while the Secret kind has series.
C10_Witness ==
    /\ running = Kinds
    /\ pc[CK] = "list" /\ resets[CK] = 1 /\ listLog[CK] = <<>> /\ prev[CK] # {}
    /\ sink[SK] # {} /\ pc[SK] \in {"entry", "get1", "get2", "get3", "export", "wait"}

\* C11 as claimed: for every entry the ConfigMap checker exported, the series
\* ConfigMapExporter.ExportMetrics publishes do not depend on the labels of the
\* ConfigMap (no serviceline is derived from them), and the call hands the
\* exporter as many arguments as it has parameters.
C11_NoServicelineAndCallFits ==
    \A e \in Succeeded(CK) :
        LET r == items[CK][e.item]
            bytes == CombinedMap(r)[e.name]
        IN  /\ ConfigMapExportMetrics({}, bytes, e.name, r.name, r.ns, e.password, r.labels).series
               = ConfigMapExportMetrics({}, bytes, e.name, r.name, r.ns, e.password, EmptyMap).series
            /\ Len(ConfigMapExportMetricsArgs) = Len(ConfigMapExportMetricsParams)

\* C12: a loop whose List call never returns stays in that call and begins no
\* further tick, while the other loop, as long as its own calls return, still
\* completes each tick it is in and begins the next one (as long as the error
\* counter is below the bound of the model); neither loop ever leaves its
\* "for" statement.
C12_HangBlocksOnlyItsLoop ==
    \A k \in Kinds :
        LET o == CHOOSE x \in Kinds : x # k
        IN  /\ [](pc[k] = "hung" => [](pc[k] = "hung"))
            /\ [](pc[k] = "hung" /\ o \in running /\ pc[o] \notin {"wait", "hung"} =>
                    <>(TickDone(o) \/ pc[o] = "hung"))
            /\ [](pc[k] = "hung" /\ o \in running /\ pc[o] = "wait" =>
                    <>(pc[o] = "begin" \/ ErrorTotal >= MaxErrorTotal))
            /\ [](pc[k] \in {"begin", "list", "item", "entry", "get1", "get2", "get3",
                             "export", "wait", "hung"})

\* A List call of the Secret loop hangs, and the ConfigMap loop is at the end
\* of a later tick of its own, in which it exported.
C12_Witness ==
    /\ pc[SK] = "hung" /\ resets[SK] = 1
    /\ TickDone(CK) /\ prev[CK] # {} /\ Succeeded(CK) # {}

\* What one step must satisfy for C13.
C13_Step ==
    \A k \in Kinds :
        \* a tick begins from the head of the loop only, with nothing of an
        \* earlier tick in progress
        /\ resets'[k] = resets[k] + 1 =>
              /\ pc[k] = "begin" /\ resets[k] = 0
              /\ listLog[k] = <<>> /\ exportLog[k] = <<>> /\ lookups[k] = <<>>
              /\ pending[k] = {} /\ cur[k] = <<>>
        \* the head of the loop is reached again only by receiving the period
        \* signal, and only with all the work of the tick done
        /\ (pc'[k] = "begin" /\ pc[k] # "begin") => (pc[k] = "wait" /\ TickDone(k))
        \* the receive is reached only with all the work of the tick done
        /\ (pc'[k] = "wait" /\ pc[k] # "wait") => TickDone(k)'

\* C13: a loop is at its head at startup, so that its first tick begins
\* without a period signal; every later tick begins only after the period
\* signal was received, which happens only after the previous tick made all
\* its List calls and processed all its resources and entries; a tick begins
\* only when no work of another tick of the loop is in progress.
C13_TicksInSequence ==
    /\ \A k \in Kinds : pc[k] = "begin" /\ resets[k] = 0 /\ prev[k] = {}
    /\ [][C13_Step]_vars

\* A later tick of a loop is at work: the previous one published, and this
\* one has listed and exported.
C13_Witness ==
    \E k \in Kinds :
        /\ prev[k] # {} /\ resets[k] = 1
        /\ pc[k] = "item" /\ listLog[k] # <<>> /\ Succeeded(k) # {}

\* The well-formed patterns of a list, in order.
WellFormed(globs) == SelectSeq(globs, LAMBDA g : ~BadPattern(g))

\* The position of the first pattern of the list that is well formed and
\* matches the name; past the end when there is none.
FirstMatch(globs, name) ==
    LET hits == {i \in 1..Len(globs) : ~BadPattern(globs[i]) /\ GlobMatch(globs[i], name)}
    IN  IF hits = {} THEN Len(globs) + 1 ELSE CHOOSE i \in hits : \A j \in hits : i <= j

\* The malformed patterns the loop over the list comes to: those before the
\* first match.
BadBefore(globs, name) ==
    Cardinality({i \in 1..(FirstMatch(globs, name) - 1) : BadPattern(globs[i])})

\* The decision on the entry with the malformed patterns removed from both lists.
DecisionWithoutBad(k, name) ==
    /\ \E i \in 1..Len(WellFormed(cfg[k].includeGlobs)) :
          GlobMatch(WellFormed(cfg[k].includeGlobs)[i], name)
    /\ ~\E i \in 1..Len(WellFormed(cfg[k].excludeGlobs)) :
          GlobMatch(WellFormed(cfg[k].excludeGlobs)[i], name)

\* What one step must satisfy for C14.
C14_Step ==
    \A k \in Kinds :
        (pc[k] = "entry" /\ pending[k] # {} /\ Moved(k)) =>
            LET published == pc'[k] \in {"get1", "get2"}
                name == IF published THEN cur'[k]
                        ELSE exportLog'[k][Len(exportLog'[k])].name
            IN  /\ name \in pending[k]
                /\ published <=> DecisionWithoutBad(k, name)
                /\ ErrorTotal' = ErrorTotal + BadBefore(cfg[k].includeGlobs, name)
                                            + BadBefore(cfg[k].excludeGlobs, name)

\* C14: when the two glob loops run for an entry, every malformed pattern they
\* come to (those before the first matching pattern of its list) adds one to
\* the error counter and matches nothing, the patterns after it are still
\* tried, and the entry is published exactly when it would be with the
\* malformed patterns removed from both lists.
C14_BadPatternIsSkipped == [][C14_Step]_vars

\* An entry has just been found to qualify by a pattern that follows a
\* malformed one in the include list, and the exclude list has a malformed
\* pattern too.
C14_Witness ==
    \E k \in Kinds :
        /\ pc[k] \in {"get1", "get2"}
        /\ BadBefore(cfg[k].includeGlobs, cur[k]) > 0
        /\ BadBefore(cfg[k].excludeGlobs, cur[k]) > 0
        /\ ErrorTotal >= 2

\* What one step of the ConfigMap checker must satisfy for C15.
C15_Step ==
    LET configMap == items[CK][itemIdx[CK]]
        before == lookups[CK]
        after == lookups'[CK]
        n == Len(after)
        l == after[n]
    IN  /\ (pc[CK] = "entry" /\ pc'[CK] \notin {"entry", "item"}) =>
              (pc'[CK] = "get2" /\ after = <<>>)
        /\ (n = Len(before) + 1) =>
              /\ n <= 2
              /\ \A i \in 1..Len(before) : before[i].password = "" /\ after[i] = before[i]
              /\ l.secret = configMap.name \o "-password"
              /\ l.secret # configMap.name
              /\ l.key = IF n = 1 THEN NameWithoutExtension(cur[CK]) \o DOTPASSWORD
                         ELSE cur[CK] \o DOTPASSWORD
              /\ l.key # PASSWORD
              /\ l.password \in ValuesNow(configMap.ns, l.secret, l.key) \cup {""}
              /\ l.err => l.password = ""
              /\ password'[CK] = l.password
              /\ pc'[CK] = IF l.password # "" \/ n = 2 THEN "export" ELSE "get3"
        /\ (Len(exportLog'[CK]) = Len(exportLog[CK]) + 1
            /\ exportLog'[CK][Len(exportLog'[CK])].exported) =>
              /\ before # <<>>
              /\ exportLog'[CK][Len(exportLog'[CK])].password = FirstNonEmpty(before)
              /\ (FirstNonEmpty(before) = "" => Len(before) = 2)

\* C15: the password of an included ConfigMap entry is resolved in two ordered
\* stages, both in the Secret "<configMap>-password": key "<name without
\* extension>.password", then, only when that gave the empty string, key
\* "<name>.password"; the key "password" is never looked up, no Secret named
\* like the ConfigMap is read, and ExportMetrics gets the first non-empty
\* result, or "".
C15_ConfigMapPasswordStages == [][C15_Step]_vars

\* The second stage has found the password of a ConfigMap entry after the
\* first found nothing, while a Secret named like the ConfigMap, with a key
\* "password", is in the cluster.
C15_Witness ==
    /\ pc[CK] = "export" /\ Len(lookups[CK]) = 2
    /\ lookups[CK][1].password = "" /\ lookups[CK][2].password # ""
    /\ password[CK] = lookups[CK][2].password
    /\ \E x \in cluster : /\ x.kind = "secret" /\ x.ns = items[CK][itemIdx[CK]].ns
                          /\ x.name = items[CK][itemIdx[CK]].name
                          /\ PASSWORD \in DOMAIN x.data /\ x.data[PASSWORD] # ""

\* The orders in which the elements of a set can be gone through.
Orders(S) ==
    {f \in [1..Cardinality(S) -> S] : \A i, j \in 1..Cardinality(S) : i # j => f[i] # f[j]}

\* The password a lookup finds in the cluster as it is now ("" when the Secret
\* or the key is missing).
LookupNow(namespace, secretName, key) ==
    LET found == {resp \in GetResponses(cluster, namespace, secretName) : ~resp.err}
    IN  IF found = {} THEN ""
        ELSE getPasswordFromSecret(CHOOSE resp \in found : TRUE, key).password

\* The password the stages of the kind resolve for an entry in the cluster as
\* it is now.
ResolveNow(k, r, name) ==
    LET own == IF k = SK THEN LookupNow(r.ns, r.name, PASSWORD) ELSE ""
        base == LookupNow(r.ns, r.name \o "-password", PasswordKey(name))
        full == LookupNow(r.ns, r.name \o "-password", FullPasswordKey(name))
    IN  IF own # "" THEN own ELSE IF base # "" THEN base ELSE full

\* The body of the entry loop for one entry, on the series of the kind and a
\* count of ErrorTotal.Inc().
ProcessEntry(k, r, name, st) ==
    LET inc == IF k = SK THEN SecretIncludeLoop(cfg[k], name) ELSE ConfigMapIncludeLoop(cfg[k], name)
        exc == IF k = SK THEN SecretExcludeLoop(cfg[k], name) ELSE ConfigMapExcludeLoop(cfg[k], name)
        publishes == IF k = SK THEN SecretPublishes(inc.flag, exc.flag)
                     ELSE ConfigMapPublishes(inc.flag, exc.flag)
        pw == ResolveNow(k, r, name)
        x == IF k = SK
             THEN SecretExportMetrics(st.series, r.data[name], name, r.name, r.ns, pw, r.labels)
             ELSE ConfigMapExportMetrics(st.series, CombinedMap(r)[name], name, r.name, r.ns,
                                         pw, NoLabels)
    IN  IF publishes
        THEN [series |-> x.series,
              errs |-> st.errs + inc.errs + exc.errs + (IF x.err THEN 1 ELSE 0)]
        ELSE [series |-> st.series, errs |-> st.errs + inc.errs + exc.errs]

\* The entry loop over the entries of a resource in the given order.
RECURSIVE ProcessEntries(_, _, _, _, _)
ProcessEntries(k, r, order, i, st) ==
    IF i > Len(order) THEN st
    ELSE ProcessEntries(k, r, order, i + 1, ProcessEntry(k, r, order[i], st))

\* C16: when a loop comes to the entries of a resource, the series of its kind
\* and the number of errors counted after the entry loop are the same for
\* every order in which the entries can be gone through (the cluster
\* answering each lookup the same way in every order).
C16_EntryOrderIsIrrelevant ==
    \A k \in running :
        (pc[k] = "entry" /\ pending[k] = DOMAIN EntriesOf(k, items[k][itemIdx[k]])) =>
            LET r == items[k][itemIdx[k]]
                st == [series |-> sink[k], errs |-> 0]
            IN  \A o1, o2 \in Orders(DOMAIN EntriesOf(k, r)) :
                    ProcessEntries(k, r, o1, 1, st) = ProcessEntries(k, r, o2, 1, st)

\* A loop comes to a resource with two entries that both qualify and decode
\* to a certificate of the same issuer and subject, with different expiry
\* dates.
C16_Witness ==
    \E k \in running :
        /\ pc[k] = "entry" /\ pending[k] = DOMAIN EntriesOf(k, items[k][itemIdx[k]])
        /\ LET r == items[k][itemIdx[k]]
           IN  \E n1, n2 \in DOMAIN EntriesOf(k, r) :
                  /\ n1 # n2 /\ PassesGlobs(k, n1) /\ PassesGlobs(k, n2)
                  /\ LET d1 == Decode(EntriesOf(k, r)[n1], ResolveNow(k, r, n1))
                         d2 == Decode(EntriesOf(k, r)[n2], ResolveNow(k, r, n2))
                     IN  /\ ~d1.err /\ ~d2.err
                         /\ \E c1 \in Range(d1.certs), c2 \in Range(d2.certs) :
                               /\ c1.issuer = c2.issuer /\ c1.cn = c2.cn
                               /\ c1.notAfter # c2.notAfter

\* The entries of the i-th listed resource that the tick has decided on.
Decided(k, i) == {e.name : e \in {x \in Range(exportLog[k]) : x.item = i}}

\* C17: in the Secret loop, with a non-empty type allowlist a listed Secret
\* whose type is no element of the list has none of its entries filtered,
\* resolved or exported, and one whose type is an element is dropped for its
\* annotations only; with an empty allowlist the type of a Secret decides
\* nothing.
C17_TypeAllowlist ==
    LET types == Range(cfg[SK].includeTypes)
    IN  \A i \in 1..Len(items[SK]) :
              LET secret == items[SK][i]
              IN  /\ (types # {} /\ secret.type \notin types) =>
                        /\ Decided(SK, i) = {}
                        /\ pc[SK] \in {"entry", "get1", "get2", "get3", "export"} =>
                              itemIdx[SK] # i
                  /\ (i < itemIdx[SK] /\ (types = {} \/ secret.type \in types)
                      /\ AnnotationAllowed(SK, secret)) =>
                        Decided(SK, i) = DOMAIN secret.data

\* A tick of the Secret loop has ended with a type allowlist set: a Secret
\* whose type is the second element of the list was exported, and a Secret of
\* another type, with an entry that qualifies, was dropped.
C17_Witness ==
    /\ pc[SK] = "wait" /\ Len(cfg[SK].includeTypes) > 1
    /\ \E i, j \in 1..Len(items[SK]) :
          /\ items[SK][i].type = cfg[SK].includeTypes[2]
          /\ \E e \in Succeeded(SK) : e.item = i
          /\ items[SK][j].type \notin Range(cfg[SK].includeTypes)
          /\ AnnotationAllowed(SK, items[SK][j])
          /\ \E name \in DOMAIN items[SK][j].data : PassesGlobs(SK, name)
          /\ Decided(SK, j) = {}

\* C18: for a key a listed ConfigMap has both in its text data and in its
\* binary data, each processing of the ConfigMap decides once on the key,
\* makes at most one ExportMetrics call for it, and that call is given the
\* bytes of the binary data: it fails exactly when they cannot be decoded and
\* the series of the key are those of the binary data.
C18_BinaryDataWins ==
    \A i \in 1..Len(items[CK]) :
        LET configMap == items[CK][i]
        IN  \A name \in DOMAIN configMap.data \cap DOMAIN configMap.binaryData :
               /\ Cardinality({j \in 1..Len(exportLog[CK]) :
                                  exportLog[CK][j].item = i /\ exportLog[CK][j].name = name}) <= 1
               /\ \A e \in Exported(CK) :
                     (e.item = i /\ e.name = name) =>
                        LET d == Decode(configMap.binaryData[name], e.password)
                        IN  /\ e.err <=> d.err
                            /\ (~e.err /\ \A j \in (i + 1)..Len(items[CK]) :
                                             ~SameObject(items[CK][j], configMap)) =>
                                  \A c \in Range(d.certs) :
                                     \E s \in sink[CK] :
                                        Short(s) = [labels |-> <<name, c.issuer, c.cn,
                                                                 configMap.name, configMap.ns>>,
                                                    value |-> c.notAfter]

\* The entry of a key that a ConfigMap has in both maps, with text that is no
\* certificate and binary data that is one, was exported without error and
\* has its series.
C18_Witness ==
    \E e \in Succeeded(CK) :
        LET configMap == items[CK][e.item]
        IN  /\ e.name \in DOMAIN configMap.data \cap DOMAIN configMap.binaryData
            /\ Decode(configMap.data[e.name], e.password).err
            /\ \E s \in sink[CK] : s.labels[1] = e.name /\ s.labels[4] = configMap.name

\* The number of password stages of the kind.
Stages(k) == IF k = SK THEN 3 ELSE 2

\* What one step must satisfy for C19.
C19_Step ==
    \A k \in Kinds :
        LET n == Len(exportLog'[k])
            e == exportLog'[k][n]
            grew == n = Len(exportLog[k]) + 1
        IN  \* an entry the globs turn down: no lookup, no export, and no
            \* error unless a pattern is malformed
            /\ (grew /\ ~e.exported) =>
                  /\ pc[k] = "entry" /\ pc'[k] = "entry"
                  /\ lookups[k] = <<>> /\ lookups'[k] = <<>>
                  /\ sink' = sink
                  /\ (\A g \in Range(cfg[k].includeGlobs) \cup Range(cfg[k].excludeGlobs) :
                         ~BadPattern(g)) => ErrorTotal' = ErrorTotal
            \* a lookup, whatever it finds: no error counted, and the entry
            \* goes on to the next stage or to ExportMetrics
            /\ (Len(lookups'[k]) = Len(lookups[k]) + 1) =>
                  /\ ErrorTotal' = ErrorTotal
                  /\ sink' = sink /\ exportLog'[k] = exportLog[k]
                  /\ cur'[k] = cur[k] /\ pending'[k] = pending[k]
                  /\ pc'[k] = IF lookups'[k][Len(lookups'[k])].password = ""
                                 /\ Len(lookups'[k]) < Stages(k)
                              THEN (IF Len(lookups'[k]) = 1 /\ k = SK THEN "get2" ELSE "get3")
                              ELSE "export"
            \* the export of an entry whose lookups found nothing: all stages
            \* were tried, the password is empty, and it is the only call for
            \* the entry in this processing of the resource
            /\ (grew /\ e.exported /\ \A i \in 1..Len(lookups[k]) : lookups[k][i].password = "") =>
                  /\ Len(lookups[k]) = Stages(k)
                  /\ e.password = ""
                  /\ e.name = cur[k] /\ e.name \in pending[k] /\ e.name \notin pending'[k]
                  /\ Cardinality({j \in 1..n : exportLog'[k][j].item = e.item
                                               /\ exportLog'[k][j].name = e.name}) = 1

\* C19: an entry the glob filter turns down causes no password lookup and no
\* ExportMetrics call, and no error when the patterns are well formed; a
\* password lookup that fails or finds nothing counts no error and leads to
\* the next stage or to the ExportMetrics call of its entry, which is made
\* once, with the empty password when no stage found one.
C19_QuietSkipsAndLookups == [][C19_Step]_vars

\* A tick has ended in which an entry was turned down by well-formed globs
\* and another was exported, successfully, with the empty password after
\* lookups that all failed; no error was counted.
C19_Witness ==
    \E k \in Kinds :
        /\ pc[k] = "wait" /\ ErrorTotal = 0
        /\ \A g \in Range(cfg[k].includeGlobs) \cup Range(cfg[k].excludeGlobs) : ~BadPattern(g)
        /\ \E e \in Range(exportLog[k]) : ~e.exported
        /\ \E e \in Succeeded(k) : e.password = ""

\* What one step must satisfy for C20.
C20_Step ==
    /\ (Moved(SK) \/ Moved(CK)) => cluster' = cluster
    /\ cluster' # cluster => (sink' = sink /\ ErrorTotal' = ErrorTotal)
    /\ \A k \in Kinds :
          \* what a loop takes from the cluster is the answer to a List call
          \* or to a Get call
          /\ items'[k] # items[k] /\ items'[k] # <<>> =>
                (pc[k] = "list" /\ Len(listLog'[k]) = Len(listLog[k]) + 1)
          /\ password'[k] # password[k] /\ password'[k] # "" =>
                (pc[k] \in {"get1", "get2", "get3"} /\ Len(lookups'[k]) = Len(lookups[k]) + 1)

\* C20: no step of either loop changes the resources of the cluster: a loop
\* takes resources from it by List calls and passwords by Get calls only, and
\* the cluster changes only by what others do to it, which is no step of a loop.
C20_ReadOnly == [][C20_Step]_vars

\* A loop has listed, looked a password up and is about to export, after a
\* tick in which it published; every resource it listed is still in the
\* cluster as listed.
C20_Witness ==
    \E k \in Kinds :
        /\ pc[k] = "export" /\ lookups[k] # <<>> /\ prev[k] # {}
        /\ Listed(k) # {} /\ Listed(k) \subseteq cluster

====
